---- MODULE Spec2Model ----
(***************************************************************************)
(* Model of the task coordinator (src/agents/task_definitions.py) and of   *)
(* the retry loops (src/agents/base_agent.py, tools.py, database_tools.py) *)
(* of CreditRisk-AI-Suite.                                                 *)
(***************************************************************************)
EXTENDS Integers, Sequences, FiniteSets, TLC

\* ------------------------------------------------------------------ bounds
\* Number of distinct task ids add_task is called with.
NumTasks == 3
\* Number of tasks of the pre-registered wide workflow (one level holds
\* WideTasks - 1 tasks, more than the pool has workers).
WideTasks == 6

\* Largest retry budget (max_retries) of a retry loop or of a task.
MaxRetries == 3
\* Largest retry_delay and largest retry_backoff.
MaxDelay == 2
MaxBackoff == 2

\* Number of success criteria of a task definition.
NumCriteria == 2
\* Largest TaskDefinition.timeout, in time units.
MaxTimeout == 2

\* ------------------------------------------------------- program constants
\* ThreadPoolExecutor(max_workers=4)
max_workers == 4

\* TaskStatus
PENDING == "pending"
RUNNING == "running"
COMPLETED == "completed"
FAILED == "failed"
CANCELLED == "cancelled"
RETRYING == "retrying"
TaskStatus == {PENDING, RUNNING, COMPLETED, FAILED, CANCELLED, RETRYING}

\* TaskType; _create_task_instance builds a task for the first four only.
TaskType ==
  {"data_collection", "risk_analysis", "documentation", "reporting",
   "validation", "approval"}
CreatableTypes ==
  {"data_collection", "risk_analysis", "documentation", "reporting"}

VARIABLES
  tasks,            \* TaskCoordinator.tasks: task_id -> TaskExecution
  task_keys,        \* insertion order of the keys of TaskCoordinator.tasks
  execution_order,  \* TaskCoordinator.execution_order
  execution_levels, \* execute_workflow: local execution_levels
  level_idx,        \* execute_workflow: index (1-based) of the level at hand
  futures,          \* execute_workflow: task ids of the futures of the level
  wait_idx,         \* execute_workflow: position in the wait loop (1-based)
  cancel_idx,       \* _cancel_dependent_tasks: position in self.tasks (1-based)
  future,           \* task_id -> state of the future submitted for it
  pc,               \* position of the thread that calls execute_workflow
  raised,           \* the error add_task / execute_workflow raised, or "none"
  metadata,         \* task_id -> the inputs task_definition.metadata holds
  inputs,           \* task_id -> the inputs its task instance was created with
  \* --- one run of a retry loop
  loop,             \* "agent" (BaseAgent.run), "tool", "database", or "none"
  max_retries,      \* config.max_retries / the max_retries parameter
  task_max_retries, \* TaskDefinition.max_retries of the task the agent works for
  retry_delay,      \* config.retry_delay / the delay parameter
  retry_backoff,    \* config.retry_backoff / the backoff parameter
  attempt,          \* the loop variable
  rpc,              \* position in the run
  outcome,          \* what the latest call of the operation did
  invocations,      \* number of calls of the operation so far
  sleeps,           \* the arguments of the time.sleep calls so far
  status,           \* BaseAgent.status
  retry_count,      \* BaseAgent.retry_count
  result,           \* the result returned by the run
  health_results,   \* _pre_execute: what health_check_all returned
  health_checks,    \* number of health_check_all calls so far
  \* --- one call of execute_task, step by step
  tpc,              \* position in execute_task
  task_exec,        \* the TaskExecution record of the task
  work,             \* what task.execute(...) did
  elapsed,          \* time units since task_exec.start_time
  \* --- one call of CreditAgentOrchestrator.run_credit_workflow
  agents,           \* the keys of CreditAgentOrchestrator.agents
  stage_idx,        \* the step of run_credit_workflow at hand (1-based)
  calling,          \* TRUE while the agent.run call of the step is going on
  workflow_results, \* stage -> "absent", or the success of its result
  invoked,          \* the stages whose agent.run was called, in call order
  summary           \* the counts of the "Workflow completed" log entry

wf_vars ==
  <<tasks, task_keys, execution_order, execution_levels, level_idx, futures,
    wait_idx, cancel_idx, future, pc, raised, metadata, inputs>>

retry_vars ==
  <<loop, max_retries, task_max_retries, retry_delay, retry_backoff, attempt,
    rpc, outcome, invocations, sleeps, status, retry_count, result,
    health_results, health_checks>>

task_vars == <<tpc, task_exec, work, elapsed>>

stage_vars ==
  <<agents, stage_idx, calling, workflow_results, invoked, summary>>

vars == <<wf_vars, retry_vars, task_vars, stage_vars>>

\* ------------------------------------------------------------------ helpers
Range(s) == {s[i] : i \in 1..Len(s)}

\* TaskExecution(task_definition=..., context=...): a fresh record.
TaskExecution(task_type, dependencies) ==
  [task_type |-> task_type, dependencies |-> dependencies,
   status |-> PENDING, error |-> "none"]

\* ------------------------------------------------- resolve_dependencies
\* while len(execution_levels) <= level: append([]);
\* execution_levels[level].append(node)          (level is 0-based)
AddToLevel(levels, level, node) ==
  LET padded == IF Len(levels) <= level
                THEN levels \o [i \in 1..(level + 1 - Len(levels)) |-> <<>>]
                ELSE levels
  IN [padded EXCEPT ![level + 1] = Append(@, node)]

RECURSIVE dfs(_, _, _, _)
RECURSIVE dfs_deps(_, _, _, _, _)

\* dfs with a node that is still in progress taken for a visited one (the
\* cycle goes unreported).
dfs_cycle_unreported(T, node, level, st) ==
  IF st.error # "none" THEN st
  ELSE IF node \in st.temp_visited THEN st
  ELSE IF node \in st.visited THEN st
  ELSE LET s1 == [st EXCEPT !.temp_visited = @ \cup {node}]
           s2 == dfs_deps(T, T[node].dependencies, 1, level, s1)
       IN IF s2.error # "none" THEN s2
          ELSE [s2 EXCEPT !.temp_visited = @ \ {node},
                          !.visited = @ \cup {node},
                          !.execution_levels = AddToLevel(@, level, node)]

\* dfs that does not test visited: a node reached again is placed again.
dfs_revisit(T, node, level, st) ==
  IF st.error # "none" THEN st
  ELSE IF node \in st.temp_visited THEN [st EXCEPT !.error = "circular"]
  ELSE LET s1 == [st EXCEPT !.temp_visited = @ \cup {node}]
           s2 == dfs_deps(T, T[node].dependencies, 1, level, s1)
       IN IF s2.error # "none" THEN s2
          ELSE [s2 EXCEPT !.temp_visited = @ \ {node},
                          !.visited = @ \cup {node},
                          !.execution_levels = AddToLevel(@, level, node)]

\* The inner function dfs(node, level) of resolve_dependencies; st holds the
\* closure's visited, temp_visited and execution_levels, and error is set
\* once ValueError("Circular dependency detected") is raised.
dfs(T, node, level, st) ==
  IF st.error # "none" THEN st
  ELSE IF node \in st.temp_visited THEN [st EXCEPT !.error = "circular"]
  ELSE IF node \in st.visited THEN st
  ELSE LET s1 == [st EXCEPT !.temp_visited = @ \cup {node}]
           s2 == dfs_deps(T, T[node].dependencies, 1, level, s1)
       IN IF s2.error # "none" THEN s2
          ELSE [s2 EXCEPT !.temp_visited = @ \ {node},
                          !.visited = @ \cup {node},
                          !.execution_levels = AddToLevel(@, level, node)]

\* for dep in dependency_graph.get(node, []): if dep in self.tasks: dfs(dep, level + 1)
dfs_deps(T, deps, i, level, st) ==
  IF i > Len(deps) \/ st.error # "none" THEN st
  ELSE dfs_deps(T, deps, i + 1, level,
                IF deps[i] \in DOMAIN T THEN dfs(T, deps[i], level + 1, st)
                ELSE st)

\* for task_id in self.tasks.keys(): if task_id not in visited: dfs(task_id, 0)
RECURSIVE process_all(_, _, _, _)
process_all(T, keys, i, st) ==
  IF i > Len(keys) \/ st.error # "none" THEN st
  ELSE process_all(T, keys, i + 1,
                   IF keys[i] \notin st.visited THEN dfs(T, keys[i], 0, st)
                   ELSE st)

resolve_dependencies(T, keys) ==
  process_all(T, keys, 1,
              [visited |-> {}, temp_visited |-> {}, execution_levels |-> <<>>,
               error |-> "none"])

\* [task_id for level in execution_levels for task_id in level]
RECURSIVE Flatten(_)
Flatten(levels) ==
  IF levels = <<>> THEN <<>> ELSE Head(levels) \o Flatten(Tail(levels))

\* ---------------------------------------------------------- task classes
\* The inputs a task instance holds non-empty: _create_task_instance reads
\* them from task_def.metadata with {} as the default.
create_task_instance(task_type, md) ==
  md \cap (IF task_type = "risk_analysis"
           THEN {"customer_data", "loan_details"}
           ELSE IF task_type = "documentation"
           THEN {"customer_data", "risk_assessment", "loan_details"}
           ELSE IF task_type = "reporting"
           THEN {"customer_data", "risk_assessment", "documentation"}
           ELSE {})

\* validate_prerequisites of the task classes.  DataCollectionTask tests the
\* customer id and the context's available_agents, which are the caller's:
\* either answer is possible, and a False one ends as a failed task does.
validate_prerequisites(task_type, ins) ==
  IF task_type = "risk_analysis"
  THEN {"customer_data", "loan_details"} \subseteq ins
  ELSE IF task_type = "documentation"
  THEN {"customer_data", "risk_assessment"} \subseteq ins
  ELSE IF task_type = "reporting"
  THEN {"customer_data", "risk_assessment", "documentation"} \subseteq ins
  ELSE TRUE

\* ------------------------------------------------ _cancel_dependent_tasks
\* A cascade step that also takes a CANCELLED dependent back to PENDING.
cancel_dependent_tasks_toggle(T, failed_task_id) ==
  [id \in DOMAIN T |->
     IF failed_task_id \in Range(T[id].dependencies)
        /\ T[id].status \in {PENDING, CANCELLED}
     THEN [T[id] EXCEPT !.status = IF @ = PENDING THEN CANCELLED ELSE PENDING]
     ELSE T[id]]

\* The call as a whole, run with no other thread in between.
cancel_dependent_tasks(T, failed_task_id) ==
  [id \in DOMAIN T |->
     IF failed_task_id \in Range(T[id].dependencies) /\ T[id].status = PENDING
     THEN [T[id] EXCEPT !.status = CANCELLED]
     ELSE T[id]]

\* ------------------------------------------------------------ thread pool
\* A wait that does not block on a call that has not finished.
FutureDone_nonblocking(t) == TRUE

\* future.result() returns or raises only once the call has finished.
FutureDone(t) == future[t] \in {"returned", "raised"}

BusyWorkers == Cardinality({t \in DOMAIN future : future[t] = "running"})

\* The queued work items in submission order.
Queued == SelectSeq(futures, LAMBDA t : future[t] = "queued")

\* A free worker thread takes the next work item of the queue; with k free
\* workers the first k queued items are taken and race to their first line.
CanStart(t) ==
  /\ BusyWorkers < max_workers
  /\ \E i \in 1..Len(Queued) :
       Queued[i] = t /\ i <= max_workers - BusyWorkers

\* ------------------------------------------------------- pre-registered
\* Workflows of WideTasks tasks, registered in the order 1, 2, ...: task 1
\* depends on the last task (and, in shapes 2 and 3, on task 2, which then
\* depends on the last task too); the other tasks depend on nothing.  In
\* shape 1 the level of task 1 holds WideTasks - 1 tasks.
WideDeps(shape, id) ==
  IF id = 1
  THEN (IF shape = 1 THEN <<WideTasks>>
        ELSE IF shape = 2 THEN <<2, WideTasks>>
        ELSE <<WideTasks, 2>>)
  ELSE IF id = 2 /\ shape # 1 THEN <<WideTasks>>
  ELSE <<>>

WideRegistry(shape, bad) ==
  [id \in 1..WideTasks |->
     TaskExecution(IF id \in bad THEN "validation" ELSE "data_collection",
                   WideDeps(shape, id))]

\* --------------------------------------------------------------------- Init
InitEmpty ==
  /\ tasks = <<>>
  /\ task_keys = <<>>

InitWide ==
  /\ \E shape \in 1..3, bad \in {{}, {2}, {WideTasks}} :
       tasks = WideRegistry(shape, bad)
  /\ task_keys = [i \in 1..WideTasks |-> i]

\* DatabaseToolManager.health_check_all: the health of the customer tool
\* and of the market tool, and 'overall', which is their conjunction.
health_check_all(customer_ok, market_ok) ==
  [customer_tool |-> customer_ok, market_tool |-> market_ok,
   overall |-> customer_ok /\ market_ok]

\* No retry loop runs.
NoRetry ==
  /\ loop = "none"
  /\ max_retries = 0
  /\ task_max_retries = 0
  /\ retry_delay = 0
  /\ retry_backoff = 0
  /\ attempt = 0
  /\ rpc = "returned"
  /\ outcome = "none"
  /\ invocations = 0
  /\ sleeps = <<>>
  /\ status = "idle"
  /\ retry_count = 0
  /\ result = [success |-> FALSE, error |-> "none", retry_count |-> 0]
  /\ health_results = health_check_all(TRUE, TRUE)
  /\ health_checks = 0

\* The steps of run_credit_workflow, in order; a result is stored under the
\* name of its step.
Stages == <<"data_collection", "risk_analysis", "documentation", "reporting">>

\* No run_credit_workflow call is going on.
NoStages ==
  /\ agents = {}
  /\ stage_idx = 0
  /\ calling = FALSE
  /\ workflow_results = [s \in Range(Stages) |-> "absent"]
  /\ invoked = <<>>
  /\ summary = [successful_steps |-> 0, total_steps |-> 0]

\* No execute_task call is followed step by step.
NoTask ==
  /\ tpc = "none"
  /\ task_exec = [task_type |-> "data_collection", timeout |-> 0,
                  status |-> PENDING, error |-> "none", success |-> FALSE]
  /\ work = [raised |-> FALSE, success |-> FALSE, data |-> <<>>]
  /\ elapsed = 0

CoordinatorFresh ==
  /\ execution_order = <<>>
  /\ execution_levels = <<>>
  /\ level_idx = 0
  /\ futures = <<>>
  /\ wait_idx = 0
  /\ cancel_idx = 0
  /\ future = [id \in DOMAIN tasks |-> "none"]
  /\ pc = "idle"
  /\ raised = "none"
  /\ metadata = [id \in DOMAIN tasks |-> {}]
  /\ inputs = [id \in DOMAIN tasks |-> {}]

Init ==
  (InitEmpty \/ InitWide) /\ CoordinatorFresh /\ NoRetry /\ NoTask /\ NoStages

\* ------------------------------------------------------------------ actions
TypeChoices == {"data_collection", "validation"}
\* The dependencies lists add_task is called with: no dependency, or one
\* dependency on any id (registered already, registered later, or never).
\* Tasks with two dependencies are in the pre-registered workflows.
DepChoices == {<<>>} \cup {<<d>> : d \in 1..NumTasks}

\* add_task(task, context): self.tasks[task_id] = TaskExecution(...).
\* Ids are interchangeable names: the i-th distinct id added is named i.
AddTask(id, task_type, dependencies) ==
  /\ pc = "idle"
  /\ Len(task_keys) <= NumTasks
  /\ id \in DOMAIN tasks \/ id = Len(task_keys) + 1
  /\ tasks' = [k \in DOMAIN tasks \cup {id} |->
                 IF k = id THEN TaskExecution(task_type, dependencies)
                 ELSE tasks[k]]
  /\ task_keys' = IF id \in DOMAIN tasks THEN task_keys
                  ELSE Append(task_keys, id)
  /\ future' = [k \in DOMAIN tasks \cup {id} |-> "none"]
  /\ raised' = "none"
  /\ metadata' = [k \in DOMAIN tasks \cup {id} |->
                    IF k = id THEN {} ELSE metadata[k]]
  /\ inputs' = [k \in DOMAIN tasks \cup {id} |-> {}]
  /\ UNCHANGED <<execution_order, execution_levels, level_idx, futures,
                 wait_idx, pc>>
  /\ UNCHANGED cancel_idx
  /\ UNCHANGED <<retry_vars, task_vars, stage_vars>>

\* execute_workflow, up to the first level: execution_levels =
\* self.resolve_dependencies(); the ValueError of a cycle leaves the method.
ExecuteWorkflow ==
  /\ pc = "idle"
  /\ LET r == resolve_dependencies(tasks, task_keys)
     IN IF r.error # "none"
        THEN /\ pc' = "aborted"
             /\ raised' = r.error
             /\ UNCHANGED <<execution_order, execution_levels, level_idx>>
        ELSE /\ pc' = "submit"
             /\ raised' = "none"
             /\ execution_order' = Flatten(r.execution_levels)
             /\ execution_levels' = r.execution_levels
             /\ level_idx' = 1
  /\ UNCHANGED <<tasks, task_keys, futures, wait_idx, future>>
  /\ UNCHANGED <<metadata, inputs>>
  /\ UNCHANGED cancel_idx
  /\ UNCHANGED <<retry_vars, task_vars, stage_vars>>

\* for task_id in level_tasks: future = self.executor.submit(...)
SubmitLevel ==
  /\ pc = "submit"
  /\ level_idx <= Len(execution_levels)
  /\ futures' = execution_levels[level_idx]
  /\ future' = [t \in DOMAIN future |->
                  IF t \in Range(execution_levels[level_idx]) THEN "queued"
                  ELSE future[t]]
  /\ wait_idx' = 1
  /\ pc' = "wait"
  /\ UNCHANGED <<tasks, task_keys, execution_order, execution_levels,
                 level_idx, raised>>
  /\ UNCHANGED <<metadata, inputs>>
  /\ UNCHANGED cancel_idx
  /\ UNCHANGED <<retry_vars, task_vars, stage_vars>>

\* A pool worker starts execute_task(task_id): _create_task_instance raises
\* for a task type without a task class, before the status is touched;
\* otherwise task_exec.status = TaskStatus.RUNNING.
StartTask(t) ==
  /\ future[t] = "queued"
  /\ CanStart(t)
  /\ IF tasks[t].task_type \in CreatableTypes
     THEN /\ tasks' = [tasks EXCEPT ![t].status = RUNNING]
          /\ future' = [future EXCEPT ![t] = "running"]
          /\ inputs' = [inputs EXCEPT ![t] =
                          create_task_instance(tasks[t].task_type, metadata[t])]
     ELSE /\ future' = [future EXCEPT ![t] = "raised"]
          /\ UNCHANGED <<tasks, inputs>>
  /\ UNCHANGED metadata
  /\ UNCHANGED <<task_keys, execution_order, execution_levels, level_idx,
                 futures, wait_idx, pc, raised>>
  /\ UNCHANGED cancel_idx
  /\ UNCHANGED <<retry_vars, task_vars, stage_vars>>

\* The rest of execute_task: the try block ends with status COMPLETED
\* (result.success) or FAILED (failed result, failed validation, exception).
FinishTask(t, success) ==
  /\ future[t] = "running"
  /\ success => validate_prerequisites(tasks[t].task_type, inputs[t])
  /\ tasks' = [tasks EXCEPT ![t].status = IF success THEN COMPLETED ELSE FAILED,
                            ![t].error = IF success THEN @ ELSE "error"]
  /\ future' = [future EXCEPT ![t] = "returned"]
  /\ UNCHANGED <<task_keys, execution_order, execution_levels, level_idx,
                 futures, wait_idx, pc, raised>>
  /\ UNCHANGED <<metadata, inputs>>
  /\ UNCHANGED cancel_idx
  /\ UNCHANGED <<retry_vars, task_vars, stage_vars>>

\* The position, from i on, of the next task of self.tasks that has
\* failed_task_id among its dependencies (the dependencies never change
\* during a run); Len(task_keys) + 1 when there is none.
RECURSIVE next_dependent(_, _)
next_dependent(failed_task_id, i) ==
  IF i > Len(task_keys) THEN i
  ELSE IF failed_task_id \in Range(tasks[task_keys[i]].dependencies) THEN i
  ELSE next_dependent(failed_task_id, i + 1)

\* The loop of _cancel_dependent_tasks moves on to position i; past the last
\* task the call returns and the wait loop goes on with the next future.
CancelAdvance(i) ==
  IF i > Len(task_keys)
  THEN /\ pc' = "wait"
       /\ wait_idx' = wait_idx + 1
       /\ cancel_idx' = 0
  ELSE /\ pc' = "cancel"
       /\ cancel_idx' = i
       /\ UNCHANGED wait_idx

\* for task_id, future in futures: try: future.result()
\* except Exception: self._cancel_dependent_tasks(task_id), which starts its
\* loop over self.tasks.
WaitFuture ==
  /\ pc = "wait"
  /\ wait_idx <= Len(futures)
  /\ FutureDone(futures[wait_idx])
  /\ IF future[futures[wait_idx]] = "raised"
     THEN CancelAdvance(next_dependent(futures[wait_idx], 1))
     ELSE /\ wait_idx' = wait_idx + 1
          /\ UNCHANGED <<pc, cancel_idx>>
  /\ UNCHANGED <<tasks, task_keys, execution_order, execution_levels,
                 level_idx, futures, future, raised>>
  /\ UNCHANGED <<metadata, inputs>>
  /\ UNCHANGED <<retry_vars, task_vars, stage_vars>>

\* _cancel_dependent_tasks at a dependent of the failed task: the test
\* task_exec.status == TaskStatus.PENDING, read by the coordinating thread
\* while the pool workers run.
CancelCheck ==
  /\ pc = "cancel"
  /\ IF tasks[task_keys[cancel_idx]].status = PENDING
     THEN /\ pc' = "cancel_set"
          /\ UNCHANGED <<wait_idx, cancel_idx>>
     ELSE CancelAdvance(next_dependent(futures[wait_idx], cancel_idx + 1))
  /\ UNCHANGED <<tasks, task_keys, execution_order, execution_levels,
                 level_idx, futures, future, raised>>
  /\ UNCHANGED <<metadata, inputs>>
  /\ UNCHANGED <<retry_vars, task_vars, stage_vars>>

\* task_exec.status = TaskStatus.CANCELLED, after the test passed.
CancelSet ==
  /\ pc = "cancel_set"
  /\ tasks' = [tasks EXCEPT ![task_keys[cancel_idx]].status = CANCELLED]
  /\ CancelAdvance(next_dependent(futures[wait_idx], cancel_idx + 1))
  /\ UNCHANGED <<task_keys, execution_order, execution_levels, level_idx,
                 futures, future, raised>>
  /\ UNCHANGED <<metadata, inputs>>
  /\ UNCHANGED <<retry_vars, task_vars, stage_vars>>

\* The wait loop is over: the for loop over the levels goes on.
NextLevel ==
  /\ pc = "wait"
  /\ wait_idx > Len(futures)
  /\ level_idx' = level_idx + 1
  /\ pc' = "submit"
  /\ UNCHANGED <<tasks, task_keys, execution_order, execution_levels,
                 futures, wait_idx, future, raised>>
  /\ UNCHANGED <<metadata, inputs>>
  /\ UNCHANGED cancel_idx
  /\ UNCHANGED <<retry_vars, task_vars, stage_vars>>

\* return {task_id: task_exec for ...}
ReturnWorkflow ==
  /\ pc = "submit"
  /\ level_idx > Len(execution_levels)
  /\ pc' = "done"
  /\ UNCHANGED <<tasks, task_keys, execution_order, execution_levels,
                 level_idx, futures, wait_idx, future, raised>>
  /\ UNCHANGED <<metadata, inputs>>
  /\ UNCHANGED cancel_idx
  /\ UNCHANGED <<retry_vars, task_vars, stage_vars>>

Next ==
  \/ \E id \in 1..NumTasks, ty \in TypeChoices, deps \in DepChoices :
       AddTask(id, ty, deps)
  \/ ExecuteWorkflow
  \/ SubmitLevel
  \/ \E t \in DOMAIN tasks : StartTask(t)
  \/ \E t \in DOMAIN tasks, success \in BOOLEAN : FinishTask(t, success)
  \/ WaitFuture
  \/ CancelCheck
  \/ CancelSet
  \/ NextLevel
  \/ ReturnWorkflow

Spec == Init /\ [][Next]_vars

\* ======================================================= credit workflow
\* The dependency names the task classes declare: "data_collection",
\* "risk_analysis" and "documentation".  They are plain names, which no task
\* id equals (a task id is the name followed by a timestamp), so they are
\* numbered above every task id.
dependency_name(task_type) ==
  IF task_type = "data_collection" THEN 101
  ELSE IF task_type = "risk_analysis" THEN 102
  ELSE 103

\* create_credit_workflow: four add_task calls, in this order.
CreateCreditWorkflow ==
  /\ pc = "idle"
  /\ task_keys = <<>>
  /\ tasks' =
       <<TaskExecution("data_collection", <<>>),
         TaskExecution("risk_analysis", <<dependency_name("data_collection")>>),
         TaskExecution("documentation",
                       <<dependency_name("data_collection"),
                         dependency_name("risk_analysis")>>),
         TaskExecution("reporting",
                       <<dependency_name("data_collection"),
                         dependency_name("risk_analysis"),
                         dependency_name("documentation")>>)>>
  /\ task_keys' = <<1, 2, 3, 4>>
  /\ future' = [k \in 1..4 |-> "none"]
  /\ metadata' = [k \in 1..4 |-> {}]
  /\ inputs' = [k \in 1..4 |-> {}]
  /\ UNCHANGED <<execution_order, execution_levels, level_idx, futures,
                 wait_idx, pc, raised>>
  /\ UNCHANGED cancel_idx
  /\ UNCHANGED <<retry_vars, task_vars, stage_vars>>

\* The result data _update_task_dependencies finds for a task type: that of
\* the first task of the type, if its result is a success (after
\* execute_task a result is a success exactly when the task is COMPLETED).
found_result(task_type) ==
  LET of_type == SelectSeq(task_keys, LAMBDA t : tasks[t].task_type = task_type)
  IN of_type # <<>> /\ tasks[Head(of_type)].status = COMPLETED

\* _update_task_dependencies, which run_enhanced_workflow calls once
\* execute_workflow has returned.
UpdateTaskDependencies ==
  /\ pc = "done"
  /\ LET data_result == IF found_result("data_collection")
                        THEN {"customer_data"} ELSE {}
         risk_result == IF found_result("risk_analysis")
                        THEN {"risk_assessment"} ELSE {}
         doc_result == IF found_result("documentation")
                       THEN {"documentation"} ELSE {}
     IN metadata' =
          [t \in DOMAIN tasks |->
             metadata[t] \cup
               (IF tasks[t].task_type = "risk_analysis" THEN data_result
                ELSE IF tasks[t].task_type = "documentation"
                THEN data_result \cup risk_result
                ELSE IF tasks[t].task_type = "reporting"
                THEN data_result \cup risk_result \cup doc_result
                ELSE {})]
  /\ pc' = "updated"
  /\ UNCHANGED <<tasks, task_keys, execution_order, execution_levels,
                 level_idx, futures, wait_idx, future, raised, inputs>>
  /\ UNCHANGED cancel_idx
  /\ UNCHANGED <<retry_vars, task_vars, stage_vars>>

\* run_enhanced_workflow: create_credit_workflow, execute_workflow,
\* _update_task_dependencies.
NextCredit ==
  \/ CreateCreditWorkflow
  \/ (task_keys # <<>> /\ ExecuteWorkflow)
  \/ SubmitLevel
  \/ \E t \in DOMAIN tasks : StartTask(t)
  \/ \E t \in DOMAIN tasks, success \in BOOLEAN : FinishTask(t, success)
  \/ WaitFuture
  \/ NextLevel
  \/ ReturnWorkflow
  \/ UpdateTaskDependencies

InitCredit ==
  InitEmpty /\ CoordinatorFresh /\ NoRetry /\ NoTask /\ NoStages

SpecCredit == InitCredit /\ [][NextCredit]_vars

\* ============================================================ retry loops
\* AgentStatus
AgentStatus == {"idle", "running", "success", "failed", "retrying"}

\* backoff ** attempt
RECURSIVE Pow(_, _)
Pow(b, k) == IF k = 0 THEN 1 ELSE b * Pow(b, k - 1)

\* The delay with the attempts counted from 1.
sleep_time_one_based(delay, backoff, k) == delay * Pow(backoff, k + 1)

\* sleep_time = retry_delay * (retry_backoff ** attempt)
sleep_time(delay, backoff, k) == delay * Pow(backoff, k)

\* Every loop iterating range(max_retries).
LoopRange_exclusive(l, n) == n

\* The number of iterations of the for loop: range(self.config.max_retries
\* + 1) in BaseAgent._retry_operation, range(max_retries) in retry_operation
\* and retry_database_operation.
LoopRange(l, n) == IF l = "agent" THEN n + 1 ELSE n

\* The test that guards time.sleep: attempt < self.config.max_retries in
\* BaseAgent._retry_operation, attempt < max_retries - 1 in the other two.
SleepsAfter(l, n, k) == IF l = "agent" THEN k < n ELSE k < n - 1

\* A result whose retry_count counts the attempts made.
loop_result_counting_attempts(l, o, count) ==
  [success |-> o = "success",
   error |-> IF o = "success" THEN "none" ELSE "Max retries exceeded",
   retry_count |-> count + 1]

\* The result a loop returns once the operation has been called for the last
\* time (o its outcome), or once the for loop is exhausted (o = "none").
loop_result(l, o, count) ==
  IF o = "success"
  THEN [success |-> TRUE, error |-> "none", retry_count |-> count]
  ELSE IF o = "exception"
  THEN [success |-> FALSE,
        error |-> IF l = "agent" THEN "Retry operation failed: exception"
                  ELSE IF l = "tool" THEN "exception"
                  ELSE "Operation failed after max_retries attempts: exception",
        retry_count |-> count]
  ELSE [success |-> FALSE,
        error |-> IF l = "database"
                  THEN "Operation failed after max_retries attempts"
                  ELSE "Max retries exceeded",
        retry_count |-> count]

\* A run that goes on when some health check passed.
all_healthy_any(hr) == hr.customer_tool \/ hr.market_tool \/ hr.overall

\* all(result.success for result in health_results.values())
all_healthy(hr) == hr.customer_tool /\ hr.market_tool /\ hr.overall

InitRetry ==
  /\ InitEmpty
  /\ CoordinatorFresh
  /\ NoTask
  /\ NoStages
  /\ loop \in {"agent", "tool", "database"}
  /\ max_retries \in 0..MaxRetries
  /\ task_max_retries \in IF loop = "agent" THEN 0..MaxRetries ELSE {0}
  /\ retry_delay \in 0..MaxDelay
  /\ retry_backoff \in 0..MaxBackoff
  /\ attempt = 0
  /\ rpc = "start"
  /\ outcome = "none"
  /\ invocations = 0
  /\ sleeps = <<>>
  /\ status = "idle"
  /\ retry_count = 0
  /\ result = [success |-> FALSE, error |-> "none", retry_count |-> 0]
  /\ health_results = health_check_all(TRUE, TRUE)
  /\ health_checks = 0

\* BaseAgent.run up to the retry loop: _pre_execute sets the status to
\* RUNNING and retry_count to 0 and calls health_check_all; a failed health
\* check returns at once.
Run(customer_ok, market_ok) ==
  /\ loop = "agent"
  /\ rpc = "start"
  /\ status' = "running"
  /\ retry_count' = 0
  /\ health_results' = health_check_all(customer_ok, market_ok)
  /\ health_checks' = health_checks + 1
  /\ IF all_healthy(health_check_all(customer_ok, market_ok))
     THEN /\ rpc' = "loop"
          /\ UNCHANGED result
     ELSE /\ rpc' = "returned"
          /\ result' = [success |-> FALSE,
                        error |-> "Pre-execution checks failed",
                        retry_count |-> 0]
  /\ UNCHANGED <<loop, max_retries, task_max_retries, retry_delay,
                 retry_backoff, attempt, outcome, invocations, sleeps>>
  /\ UNCHANGED <<wf_vars, task_vars, stage_vars>>

\* retry_operation(operation_func, ...) / retry_database_operation(...) is
\* called.
CallRetry ==
  /\ loop \in {"tool", "database"}
  /\ rpc = "start"
  /\ rpc' = "loop"
  /\ UNCHANGED <<loop, max_retries, task_max_retries, retry_delay,
                 retry_backoff, attempt, outcome, invocations, sleeps, status,
                 retry_count, result>>
  /\ UNCHANGED <<health_results, health_checks>>
  /\ UNCHANGED <<wf_vars, task_vars, stage_vars>>

\* One iteration of the for loop up to the call of the operation; o is what
\* the operation does.  BaseAgent._retry_operation first sets retry_count
\* and, for attempt > 0, the status RETRYING.
Invoke(o) ==
  /\ rpc = "loop"
  /\ attempt < LoopRange(loop, max_retries)
  /\ retry_count' = IF loop = "agent" THEN attempt ELSE retry_count
  /\ status' = IF loop = "agent" /\ attempt > 0 THEN "retrying" ELSE status
  /\ invocations' = invocations + 1
  /\ outcome' = o
  /\ rpc' = "called"
  /\ UNCHANGED <<loop, max_retries, task_max_retries, retry_delay,
                 retry_backoff, attempt, sleeps, result>>
  /\ UNCHANGED <<health_results, health_checks>>
  /\ UNCHANGED <<wf_vars, task_vars, stage_vars>>

\* The operation failed or raised and the sleep test holds:
\* time.sleep(sleep_time), then the next iteration.
Sleep ==
  /\ rpc = "called"
  /\ outcome \in {"failure", "exception"}
  /\ SleepsAfter(loop, max_retries, attempt)
  /\ sleeps' = Append(sleeps, sleep_time(retry_delay, retry_backoff, attempt))
  /\ attempt' = attempt + 1
  /\ rpc' = "loop"
  /\ UNCHANGED <<loop, max_retries, task_max_retries, retry_delay,
                 retry_backoff, outcome, invocations, status, retry_count,
                 result>>
  /\ UNCHANGED <<health_results, health_checks>>
  /\ UNCHANGED <<wf_vars, task_vars, stage_vars>>

\* The loop returns: on success, on the exception of the last attempt, or
\* when the for loop is exhausted.  BaseAgent.run then runs _post_execute,
\* which copies retry_count into the result and sets the final status.
Return ==
  /\ \/ rpc = "called" /\ outcome = "success"
     \/ rpc = "called" /\ ~SleepsAfter(loop, max_retries, attempt)
     \/ rpc = "loop" /\ attempt >= LoopRange(loop, max_retries)
  /\ LET o == IF rpc = "called" THEN outcome ELSE "none"
         r == loop_result(loop, o, IF loop = "agent" THEN retry_count ELSE 0)
     IN /\ result' = r
        /\ status' = IF loop = "agent"
                      THEN (IF r.success THEN "success" ELSE "failed")
                      ELSE status
  /\ rpc' = "returned"
  /\ UNCHANGED <<loop, max_retries, task_max_retries, retry_delay,
                 retry_backoff, attempt, outcome, invocations, sleeps,
                 retry_count>>
  /\ UNCHANGED <<health_results, health_checks>>
  /\ UNCHANGED <<wf_vars, task_vars, stage_vars>>

NextRetry ==
  \/ \E customer_ok \in BOOLEAN, market_ok \in BOOLEAN :
       Run(customer_ok, market_ok)
  \/ CallRetry
  \/ \E o \in {"success", "failure", "exception"} : Invoke(o)
  \/ Sleep
  \/ Return

SpecRetry == InitRetry /\ [][NextRetry]_vars

RetryTypeOK ==
  /\ status \in AgentStatus
  /\ attempt \in 0..(MaxRetries + 1)
  /\ invocations \in 0..(MaxRetries + 1)

TypeOK ==
  /\ \A t \in DOMAIN tasks : tasks[t].status \in TaskStatus
  /\ DOMAIN tasks = Range(task_keys)
  /\ DOMAIN future = DOMAIN tasks

\* =========================================================== execute_task
\* The names of the success criteria of a task definition (every task class
\* declares NumCriteria = 2 of them).
Criteria == 1..NumCriteria

\* What result.data holds for a criterion: the expected value, another
\* value, or no such field.
FieldStates == {"expected", "other", "absent"}

\* BaseTask.validate_result: False for a failed result; a criterion is
\* compared only `if criterion in result.data`.
validate_result(r) ==
  IF ~r.success THEN FALSE
  ELSE \A c \in Criteria : r.data[c] # "absent" => r.data[c] = "expected"

InitTask ==
  /\ InitEmpty
  /\ CoordinatorFresh
  /\ NoRetry
  /\ NoStages
  /\ tpc = "start"
  /\ \E ty \in TaskType, to \in 1..MaxTimeout :
       task_exec = [task_type |-> ty, timeout |-> to, status |-> PENDING,
                    error |-> "none", success |-> FALSE]
  /\ work = [raised |-> FALSE, success |-> FALSE,
             data |-> [c \in Criteria |-> "absent"]]
  /\ elapsed = 0

\* execute_task up to the try block: task = self._create_task_instance(...)
\* raises for a type without a task class; then status = RUNNING and
\* start_time = now.
CreateTaskInstance ==
  /\ tpc = "start"
  /\ IF task_exec.task_type \in CreatableTypes
     THEN /\ task_exec' = [task_exec EXCEPT !.status = RUNNING]
          /\ tpc' = "try"
     ELSE /\ tpc' = "raised"
          /\ UNCHANGED task_exec
  /\ UNCHANGED <<work, elapsed>>
  /\ UNCHANGED <<wf_vars, retry_vars, stage_vars>>

\* A time unit passes while validate_prerequisites / task.execute run;
\* nothing in execute_task or execute_workflow reads a clock or the timeout.
Tick ==
  /\ tpc = "try"
  /\ elapsed <= MaxTimeout
  /\ elapsed' = elapsed + 1
  /\ UNCHANGED <<tpc, task_exec, work>>
  /\ UNCHANGED <<wf_vars, retry_vars, stage_vars>>

\* The try block: prerequisites not met or an exception of task.execute end
\* in the except branch; a successful result that fails validate_result is
\* turned into a failed one; status COMPLETED or FAILED follows the result.
ExecuteTry(prerequisites, w) ==
  /\ tpc = "try"
  /\ work' = IF prerequisites THEN w ELSE work
  /\ LET raises == ~prerequisites \/ w.raised
         valid == ~(w.success /\ ~validate_result(w))
         success == ~raises /\ w.success /\ valid
     IN task_exec' =
          [task_exec EXCEPT
             !.status = IF success THEN COMPLETED ELSE FAILED,
             !.success = success,
             !.error = IF success THEN @
                       ELSE IF ~prerequisites
                       THEN "Task prerequisites not met"
                       ELSE IF w.raised THEN "exception"
                       ELSE IF ~valid THEN "Task result validation failed"
                       ELSE "result error"]
  /\ tpc' = "returned"
  /\ UNCHANGED elapsed
  /\ UNCHANGED <<wf_vars, retry_vars, stage_vars>>

\* The values task.execute can leave: an exception, or an AgentResult.
WorkChoices ==
  {[raised |-> TRUE, success |-> FALSE, data |-> [c \in Criteria |-> "absent"]]}
  \cup {[raised |-> FALSE, success |-> ok, data |-> d] :
          ok \in BOOLEAN, d \in [Criteria -> FieldStates]}

NextTask ==
  \/ CreateTaskInstance
  \/ Tick
  \/ \E prerequisites \in BOOLEAN, w \in WorkChoices :
       ExecuteTry(prerequisites, w)

SpecTask == InitTask /\ [][NextTask]_vars

TaskTypeOK ==
  /\ task_exec.status \in TaskStatus
  /\ elapsed \in 0..(MaxTimeout + 1)

\* ==================================================== run_credit_workflow
\* The key of self.agents a step looks its agent up with.
agent_id(stage) ==
  IF stage = "data_collection" THEN "data_collection_agent"
  ELSE IF stage = "risk_analysis" THEN "risk_analysis_agent"
  ELSE IF stage = "documentation" THEN "documentation_agent"
  ELSE "reporting_agent"

AgentIds == {agent_id(Stages[i]) : i \in 1..Len(Stages)}

\* workflow_results.get(stage, AgentResult(success=False)).success
succeeded(wr, stage) == wr[stage] = "success"

\* A step that goes on as soon as the earlier steps have an entry.
step_condition_on_entry(wr, stage) ==
  IF stage = "data_collection" THEN TRUE
  ELSE IF stage = "risk_analysis" THEN wr["data_collection"] # "absent"
  ELSE IF stage = "documentation" THEN wr["risk_analysis"] # "absent"
  ELSE wr["documentation"] # "absent" /\ wr["risk_analysis"] # "absent"

\* The test that guards a step: none for data collection; the success of
\* data collection for risk analysis; of risk analysis for documentation; of
\* documentation and risk analysis for reporting.
step_condition(wr, stage) ==
  IF stage = "data_collection" THEN TRUE
  ELSE IF stage = "risk_analysis" THEN succeeded(wr, "data_collection")
  ELSE IF stage = "documentation" THEN succeeded(wr, "risk_analysis")
  ELSE succeeded(wr, "documentation") /\ succeeded(wr, "risk_analysis")

\* run_credit_workflow is called on an orchestrator with any of the four
\* agents registered.
InitStages ==
  /\ InitEmpty
  /\ CoordinatorFresh
  /\ NoRetry
  /\ NoTask
  /\ agents \in SUBSET AgentIds
  /\ stage_idx = 1
  /\ calling = FALSE
  /\ workflow_results = [s \in Range(Stages) |-> "absent"]
  /\ invoked = <<>>
  /\ summary = [successful_steps |-> 0, total_steps |-> 0]

\* A step up to the call of its agent: the test of the earlier results and
\* self.agents.get(...); the step is skipped when either fails.
BeginStage ==
  /\ stage_idx \in 1..Len(Stages)
  /\ ~calling
  /\ IF /\ step_condition(workflow_results, Stages[stage_idx])
        /\ agent_id(Stages[stage_idx]) \in agents
     THEN /\ calling' = TRUE
          /\ invoked' = Append(invoked, Stages[stage_idx])
          /\ UNCHANGED stage_idx
     ELSE /\ stage_idx' = stage_idx + 1
          /\ UNCHANGED <<calling, invoked>>
  /\ UNCHANGED <<agents, workflow_results, summary>>
  /\ UNCHANGED <<wf_vars, retry_vars, task_vars>>

\* agent.run(...) returns and its result is stored under the step's name.
StageReturns(success) ==
  /\ calling
  /\ workflow_results' =
       [workflow_results EXCEPT ![Stages[stage_idx]] =
          IF success THEN "success" ELSE "failed"]
  /\ calling' = FALSE
  /\ stage_idx' = stage_idx + 1
  /\ UNCHANGED <<agents, invoked, summary>>
  /\ UNCHANGED <<wf_vars, retry_vars, task_vars>>

\* The workflow summary and return workflow_results.
ReturnResults ==
  /\ stage_idx = Len(Stages) + 1
  /\ summary' =
       [successful_steps |->
          Cardinality({s \in Range(Stages) : workflow_results[s] = "success"}),
        total_steps |->
          Cardinality({s \in Range(Stages) : workflow_results[s] # "absent"})]
  /\ stage_idx' = stage_idx + 1
  /\ UNCHANGED <<agents, calling, workflow_results, invoked>>
  /\ UNCHANGED <<wf_vars, retry_vars, task_vars>>

NextStages ==
  \/ BeginStage
  \/ \E success \in BOOLEAN : StageReturns(success)
  \/ ReturnResults

SpecStages == InitStages /\ [][NextStages]_vars

StagesTypeOK ==
  /\ stage_idx \in 1..(Len(Stages) + 2)
  /\ \A s \in Range(Stages) :
       workflow_results[s] \in {"absent", "success", "failed"}

\* ================================================================== claims
\* The dependencies of t that are registered tasks.
RegisteredDeps(t) == Range(tasks[t].dependencies) \cap DOMAIN tasks

\* The tasks that depend, directly or through other tasks, on a task of S.
RECURSIVE DependentsClosure(_)
DependentsClosure(S) ==
  LET more == S \cup {t \in DOMAIN tasks : RegisteredDeps(t) \cap S # {}}
  IN IF more = S THEN S ELSE DependentsClosure(more)

TransitiveDependents(a) ==
  DependentsClosure({t \in DOMAIN tasks : a \in RegisteredDeps(t)})

OnCycle(t) == t \in TransitiveDependents(t)
HasCycle == \E t \in DOMAIN tasks : OnCycle(t)

\* The (1-based) index of the level resolve_dependencies put t in.
LevelOf(t) ==
  CHOOSE i \in 1..Len(execution_levels) : t \in Range(execution_levels[i])

Resolved == pc \in {"submit", "wait", "cancel", "cancel_set", "done"}

\* C1: a task enters RUNNING only at a moment when every one of its
\* dependencies has status COMPLETED.
C1_RunsOnlyAfterDependencies ==
  [][\A t \in DOMAIN tasks :
       (tasks[t].status # RUNNING /\ tasks'[t].status = RUNNING)
       => \A d \in RegisteredDeps(t) : tasks[d].status = COMPLETED]_vars

\* C2: after resolve_dependencies, every registered dependency of a task is
\* in a level with a strictly smaller index than the task's level.
C2_DependenciesInEarlierLevels ==
  Resolved =>
    \A t \in DOMAIN tasks :
      \A d \in RegisteredDeps(t) : LevelOf(d) < LevelOf(t)

\* C3: when execute_workflow has returned, every transitive dependent of a
\* FAILED or CANCELLED task is CANCELLED (and so never ran).
C3_CascadeComplete ==
  pc = "done" =>
    \A a \in DOMAIN tasks :
      tasks[a].status \in {FAILED, CANCELLED} =>
        \A t \in TransitiveDependents(a) : tasks[t].status = CANCELLED

\* C4: level barrier: while a task of some level has been submitted, every
\* task of every earlier level has had its execute_task call return or
\* raise, and none of them is RUNNING or RETRYING.
C4_LevelBarrier ==
  Resolved =>
    \A t \in DOMAIN tasks, u \in DOMAIN tasks :
      (LevelOf(t) < LevelOf(u) /\ future[u] # "none")
      => /\ future[t] \in {"returned", "raised"}
         /\ tasks[t].status \notin {RUNNING, RETRYING}

\* A level holds more tasks than the pool has workers, all of them have been
\* executed, and a task of the next level is running.
C4_Witness ==
  /\ pc = "wait"
  /\ level_idx > 1
  /\ Len(execution_levels[level_idx - 1]) > max_workers
  /\ \E u \in Range(execution_levels[level_idx]) : tasks[u].status = RUNNING

\* C5: with a cycle among the registered tasks, execute_workflow ends with
\* the circular-dependency error; no task has run, every task is PENDING and
\* execution_order is as it was (empty).
C5_CycleAborts ==
  /\ (pc # "idle" /\ HasCycle) => (pc = "aborted" /\ raised = "circular")
  /\ pc = "aborted" =>
       /\ \A t \in DOMAIN tasks :
            tasks[t].status = PENDING /\ future[t] = "none"
       /\ execution_order = <<>>
       /\ execution_levels = <<>>

\* The run was aborted on a cycle of at least two tasks that the first
\* registered task is not part of.
C5_Witness ==
  /\ pc = "aborted"
  /\ Len(task_keys) >= 3
  /\ ~OnCycle(task_keys[1])
  /\ \E t \in DOMAIN tasks : OnCycle(t) /\ t \notin RegisteredDeps(t)

\* C6: a dependency id that is not registered makes execute_workflow fail
\* with an unknown-dependency error before any task runs.
C6_UnknownDependencyRejected ==
  (pc # "idle" /\ \E t \in DOMAIN tasks :
                    ~(Range(tasks[t].dependencies) \subseteq DOMAIN tasks))
  => /\ pc = "aborted"
     /\ raised = "unknown_dependency"
     /\ \A t \in DOMAIN tasks : tasks[t].status = PENDING

\* C7: add_task with an id that is already registered leaves the registered
\* record as it is.
C7_DuplicateNotReplaced ==
  [][pc = "idle" => \A id \in DOMAIN tasks : tasks'[id] = tasks[id]]_vars

\* A run has ended with every attempt failed (the health check had passed).
AllAttemptsFailed ==
  /\ rpc = "returned"
  /\ loop # "none"
  /\ ~result.success
  /\ result.error # "Pre-execution checks failed"

\* C8: the work of a task with TaskDefinition.max_retries = N is invoked at
\* most N + 1 times.
C8_InvocationsWithinTaskBudget ==
  loop = "agent" => invocations <= task_max_retries + 1

\* C9 (as stated): every retry loop attempts an always-failing operation
\* exactly max_retries + 1 times.
C9_AttemptsNPlusOne ==
  AllAttemptsFailed => invocations = max_retries + 1

\* C9 (amended): an always-failing operation is attempted exactly
\* max_retries + 1 times by BaseAgent._retry_operation and exactly
\* max_retries times by retry_operation and retry_database_operation, and
\* is then reported as failed.
C9_AttemptsPerLoop ==
  AllAttemptsFailed =>
    /\ loop = "agent" => invocations = max_retries + 1
    /\ loop \in {"tool", "database"} => invocations = max_retries
    /\ result.success = FALSE

\* BaseAgent._retry_operation gave up after 1 + 2 attempts.
C9_Witness ==
  /\ AllAttemptsFailed
  /\ loop = "agent"
  /\ max_retries = 2
  /\ invocations = 3

\* C10: in BaseAgent._retry_operation the k-th sleep (k 0-based) lasts
\* retry_delay * retry_backoff^k; an always-failing operation sleeps exactly
\* max_retries times, never after its final attempt, and the delays are
\* non-decreasing when retry_backoff >= 1.
C10_BackoffSchedule ==
  loop = "agent" =>
    /\ \A k \in 0..(Len(sleeps) - 1) :
         sleeps[k + 1] = retry_delay * Pow(retry_backoff, k)
    /\ AllAttemptsFailed => Len(sleeps) = max_retries
    /\ (rpc = "returned" /\ invocations > 0) => Len(sleeps) = invocations - 1
    /\ retry_backoff >= 1 =>
         \A k \in 1..(Len(sleeps) - 1) : sleeps[k] <= sleeps[k + 1]

\* An always-failing operation with max_retries = 3, retry_delay = 1 and
\* retry_backoff = 2 has slept 1, 2 and 4.
C10_Witness ==
  /\ loop = "agent"
  /\ AllAttemptsFailed
  /\ max_retries = 3
  /\ sleeps = <<1, 2, 4>>

Terminal == {COMPLETED, FAILED, CANCELLED}

\* C11: when execute_workflow has returned, every registered task has a
\* terminal status.
C11_AllTerminalAtReturn ==
  pc = "done" => \A t \in DOMAIN tasks : tasks[t].status \in Terminal

\* C12: a record that has reached a terminal status keeps that status.
C12_TerminalIsFinal ==
  [][\A t \in DOMAIN tasks :
       tasks[t].status \in Terminal => tasks'[t].status = tasks[t].status]_vars

\* C13: a task whose work reports success while the result data does not
\* satisfy every success criterion (field present with the expected value)
\* ends FAILED, never COMPLETED.
C13_UnsatisfiedCriteriaFail ==
  (/\ tpc = "returned"
   /\ ~work.raised
   /\ work.success
   /\ \E c \in Criteria : work.data[c] # "expected")
  => task_exec.status = FAILED

\* The input of a dependent task that the result of a task of the given
\* type is meant for.
InputOf(task_type) ==
  IF task_type = "data_collection" THEN "customer_data"
  ELSE IF task_type = "risk_analysis" THEN "risk_assessment"
  ELSE "documentation"

\* C14: a task is invoked with the result data of its COMPLETED
\* dependencies as inputs: when it starts, the input fed by each dependency
\* that is COMPLETED is among the inputs of its task instance.
C14_InputsFromDependencies ==
  [][\A t \in DOMAIN tasks :
       (tasks[t].status # RUNNING /\ tasks'[t].status = RUNNING)
       => \A ty \in {"data_collection", "risk_analysis", "documentation"} :
            (/\ dependency_name(ty) \in Range(tasks[t].dependencies)
             /\ \E u \in DOMAIN tasks :
                  tasks[u].task_type = ty /\ tasks[u].status = COMPLETED)
            => InputOf(ty) \in inputs'[t]]_vars

\* C15: when execute_workflow has returned, every task that depends,
\* directly or through other tasks, on no FAILED or CANCELLED task has been
\* executed and is COMPLETED or FAILED.
C15_IndependentTasksFinish ==
  pc = "done" =>
    \A t \in DOMAIN tasks :
      (\A a \in DOMAIN tasks :
         tasks[a].status \in {FAILED, CANCELLED} => t \notin TransitiveDependents(a))
      => tasks[t].status \in {COMPLETED, FAILED}

\* The error of the latest attempt, as the operation reported it: the text
\* of its exception or the error of its failed result.
LastAttemptError == IF outcome = "exception" THEN "exception" ELSE "result error"

\* C16: when BaseAgent._retry_operation gives up, the error of the result it
\* returns (which execute_task stores in TaskExecution.error) is the error of
\* the last failed attempt, bare or with the "Retry operation failed: "
\* prefix of _handle_error.
C16_LastAttemptErrorRecorded ==
  (AllAttemptsFailed /\ loop = "agent")
  => result.error \in {LastAttemptError,
                       "Retry operation failed: " \o LastAttemptError}

\* C17: a CANCELLED record names the failed or cancelled task the
\* cancellation came from (_cancel_dependent_tasks writes no field but the
\* status, and error is the only text field of the record).
C17_CancelledRecordsAncestor ==
  \A t \in DOMAIN tasks : tasks[t].status = CANCELLED => tasks[t].error # "none"

\* C18: BaseAgent.run consults the health check once, before the operation
\* is executed; when a health check reports unhealthy the run has returned
\* the failure result and the operation was never invoked: no attempt, no
\* retry, no sleep.
C18_UnhealthyRunRejected ==
  loop = "agent" =>
    /\ health_checks = IF rpc = "start" THEN 0 ELSE 1
    /\ invocations > 0 => all_healthy(health_results)
    /\ (health_checks = 1 /\ ~(health_results.customer_tool
                               /\ health_results.market_tool))
       => /\ rpc = "returned"
          /\ result.success = FALSE
          /\ result.error = "Pre-execution checks failed"
          /\ invocations = 0
          /\ attempt = 0
          /\ sleeps = <<>>

\* A run with a retry budget of 3 was rejected because the market tool alone
\* was unhealthy.
C18_Witness ==
  /\ loop = "agent"
  /\ rpc = "returned"
  /\ max_retries = 3
  /\ health_results.customer_tool
  /\ ~health_results.market_tool
  /\ invocations = 0
  /\ ~result.success

\* C19: an attempt that exceeds TaskDefinition.timeout is aborted and counts
\* as failed: no task is RUNNING once more than its timeout has elapsed, and
\* an attempt that overran its timeout never ends COMPLETED.
C19_TimeoutAbortsAttempt ==
  /\ task_exec.status = RUNNING => elapsed <= task_exec.timeout
  /\ (tpc = "returned" /\ elapsed > task_exec.timeout)
     => task_exec.status = FAILED

\* C20: the PENDING test and the CANCELLED assignment of
\* _cancel_dependent_tasks never interleave with the worker of the same
\* task: a record is set CANCELLED only while it is still PENDING and no
\* worker is running its task.
C20_CancelNeverRacesWorker ==
  [][\A t \in DOMAIN tasks :
       (tasks[t].status # CANCELLED /\ tasks'[t].status = CANCELLED)
       => (tasks[t].status = PENDING /\ future[t] # "running")]_vars

\* The places <<i, j>> of the levels that hold t.
PlacesOf(levels, t) ==
  {p \in UNION {{<<i, j>> : j \in 1..Len(levels[i])} : i \in 1..Len(levels)} :
     levels[p[1]][p[2]] = t}

\* C21: for registered tasks without a cycle resolve_dependencies succeeds
\* and places every registered id in exactly one level, once; the levels
\* hold no other id, and execution_order is a permutation of the ids.
C21_ExactlyOneLevel ==
  /\ (pc # "idle" /\ ~HasCycle) => Resolved
  /\ Resolved =>
       /\ \A t \in DOMAIN tasks :
            Cardinality(PlacesOf(execution_levels, t)) = 1
       /\ \A i \in 1..Len(execution_levels) :
            Range(execution_levels[i]) \subseteq DOMAIN tasks
       /\ Len(execution_order) = Cardinality(DOMAIN tasks)
       /\ Range(execution_order) = DOMAIN tasks

\* The levels were computed for three tasks, two of which depend on the
\* same task (the traversal reaches it twice), and span two levels or more.
C21_Witness ==
  /\ Resolved
  /\ Len(task_keys) = 3
  /\ Len(execution_levels) >= 2
  /\ \E a \in DOMAIN tasks, t \in DOMAIN tasks, u \in DOMAIN tasks :
       t # u /\ a \in RegisteredDeps(t) /\ a \in RegisteredDeps(u)

\* The reference leveling: 0 for a task without registered dependencies,
\* otherwise 1 + the largest level of its dependencies (no cycle).
RECURSIVE RefLevel(_)
RefLevel(t) ==
  IF RegisteredDeps(t) = {} THEN 0
  ELSE LET ls == {RefLevel(d) : d \in RegisteredDeps(t)}
       IN 1 + CHOOSE m \in ls : \A l \in ls : l <= m

\* C22: the level resolve_dependencies gives a task (0-based) is its
\* reference level.
C22_ReferenceLeveling ==
  Resolved => \A t \in DOMAIN tasks : LevelOf(t) - 1 = RefLevel(t)

\* The task-to-level assignment of a list of levels.
LevelMap(levels) ==
  [t \in UNION {Range(levels[i]) : i \in 1..Len(levels)} |->
     CHOOSE i \in 1..Len(levels) : t \in Range(levels[i])]

\* The registration orders of the registered ids.
AddOrders ==
  {[i \in 1..Len(task_keys) |-> f[task_keys[i]]] :
     f \in Permutations(Range(task_keys))}

\* C23: resolve_dependencies gives every task the same level whatever the
\* order the same tasks were added in.
C23_OrderIndependent ==
  pc = "idle" =>
    \A keys \in AddOrders :
      LET a == resolve_dependencies(tasks, task_keys)
          b == resolve_dependencies(tasks, keys)
      IN /\ a.error = b.error
         /\ a.error = "none" =>
              LevelMap(a.execution_levels) = LevelMap(b.execution_levels)

\* C24: _cancel_dependent_tasks run a second time for the same failed task
\* changes no record: the CANCELLED tasks are the same as after one run, and
\* a run changes no task that is not PENDING.
C24_CancelIdempotent ==
  \A f \in DOMAIN tasks :
    LET once == cancel_dependent_tasks(tasks, f)
        twice == cancel_dependent_tasks(once, f)
    IN /\ twice = once
       /\ {t \in DOMAIN tasks : twice[t].status = CANCELLED}
            = {t \in DOMAIN tasks : once[t].status = CANCELLED}
       /\ \A t \in DOMAIN tasks : tasks[t].status # PENDING => once[t] = tasks[t]

\* The cascade ran for a task whose execute_task raised: one dependent was
\* set CANCELLED and another dependent had started and was left as it was.
C24_Witness ==
  \E f \in DOMAIN tasks, t \in DOMAIN tasks, u \in DOMAIN tasks :
    /\ future[f] = "raised"
    /\ f \in Range(tasks[t].dependencies) /\ tasks[t].status = CANCELLED
    /\ f \in Range(tasks[u].dependencies)
    /\ tasks[u].status \in {RUNNING, COMPLETED, FAILED}

\* C25: when the wait loop of execute_workflow is done with the future of a
\* task that ended FAILED, the cascade step has run for it: no immediate
\* dependent of it is PENDING any more.
C25_FailedTaskCascades ==
  [][(/\ pc = "wait"
      /\ wait_idx <= Len(futures)
      /\ wait_idx' = wait_idx + 1
      /\ tasks[futures[wait_idx]].status = FAILED)
     => \A t \in DOMAIN tasks :
          futures[wait_idx] \in Range(tasks[t].dependencies)
          => tasks'[t].status # PENDING]_vars

\* The registered tasks of a type.
TasksOfType(ty) == {u \in DOMAIN tasks : tasks[u].task_type = ty}

\* C26: in the credit workflow a task starts only when the tasks its
\* declared dependencies name (data collection, risk analysis,
\* documentation) are COMPLETED.
C26_CreditPipelineOrder ==
  [][\A t \in DOMAIN tasks :
       (tasks[t].status # RUNNING /\ tasks'[t].status = RUNNING)
       => \A ty \in {"data_collection", "risk_analysis", "documentation"} :
            dependency_name(ty) \in Range(tasks[t].dependencies)
            => /\ TasksOfType(ty) # {}
               /\ \A u \in TasksOfType(ty) : tasks[u].status = COMPLETED]_vars

\* C27: BaseAgent._retry_operation invokes the operation in status RUNNING
\* only: never while the status is RETRYING.
C27_InvokedOnlyWhenRunning ==
  (loop = "agent" /\ rpc = "called") => status = "running"

\* C28: once BaseAgent.run has returned a result, the status is SUCCESS if
\* the result is a success and FAILED otherwise.
C28_StatusAgreesWithResult ==
  (loop = "agent" /\ rpc = "returned")
  => status = IF result.success THEN "success" ELSE "failed"

\* C30: BaseAgent._retry_operation stops at the first successful attempt:
\* the operation is not invoked again and no further sleep is taken (the
\* attempts made are the failed ones, each followed by one sleep, and the
\* successful one), and the result returned is a success whose retry_count
\* is the number of failed attempts before it, at most max_retries.
C30_StopsAtFirstSuccess ==
  (loop = "agent" /\ outcome = "success") =>
    /\ rpc \in {"called", "returned"}
    /\ invocations = attempt + 1
    /\ Len(sleeps) = attempt
    /\ attempt <= max_retries
    /\ rpc = "returned" =>
         /\ result.success
         /\ result.error = "none"
         /\ result.retry_count = invocations - 1
         /\ result.retry_count <= max_retries
         /\ status = "success"

\* With a budget of 3 the third attempt succeeded and the run returned.
C30_Witness ==
  /\ loop = "agent"
  /\ rpc = "returned"
  /\ max_retries = 3
  /\ outcome = "success"
  /\ invocations = 3
  /\ result.retry_count = 2

\* The position of a stage among the steps.
StageNo(s) == CHOOSE i \in 1..Len(Stages) : Stages[i] = s

\* C29: in run_credit_workflow a stage is invoked only if every earlier
\* stage succeeded; once a stage has failed or has been passed without a
\* result (its agent missing), no later stage is invoked and the results
\* hold no entry for a later stage; only invoked stages have an entry.
C29_StagesOnlyAfterSuccess ==
  /\ \A i \in 1..Len(invoked) :
       \A e \in Range(Stages) :
         StageNo(e) < StageNo(invoked[i]) => workflow_results[e] = "success"
  /\ \A e \in Range(Stages), s \in Range(Stages) :
       (/\ StageNo(e) < StageNo(s)
        /\ workflow_results[e] # "success"
        /\ stage_idx > StageNo(e))
       => /\ s \notin Range(invoked)
          /\ workflow_results[s] = "absent"
  /\ \A s \in Range(Stages) :
       workflow_results[s] # "absent" => s \in Range(invoked)
  /\ \A i \in 1..Len(invoked), j \in 1..Len(invoked) :
       i < j => StageNo(invoked[i]) < StageNo(invoked[j])

\* With the four agents registered, data collection succeeded, risk
\* analysis failed and the call returned with these two entries only.
C29_Witness ==
  /\ agents = AgentIds
  /\ stage_idx = Len(Stages) + 2
  /\ workflow_results["data_collection"] = "success"
  /\ workflow_results["risk_analysis"] = "failed"
  /\ invoked = <<"data_collection", "risk_analysis">>
  /\ summary = [successful_steps |-> 1, total_steps |-> 2]

====
